---------------------------- MODULE Spec2Model ----------------------------
(***************************************************************************)
(* Model of src/pitch_deck_scraper.py: the five regular-expression field   *)
(* extractors of PitchDeckScraper and process_pitch_deck.                  *)
(*                                                                         *)
(* Texts are TLA+ strings.  A position is the 1-based index of the next    *)
(* character to consume; a match [s, e) covers characters s .. e-1.        *)
(* Every regular expression is translated with the backtracking priority   *)
(* of Python's re module: leftmost start, alternatives in written order,   *)
(* greedy quantifiers longest first, lazy quantifiers shortest first.      *)
(*                                                                         *)
(* Optional values: None is <<>>, a present value v is <<v>>.              *)
(* Floats are exact decimals [m, e] standing for m * 10^e.                 *)
(***************************************************************************)
EXTENDS Integers, Sequences, FiniteSets

VARIABLES
    text,      \* the text handed to the extractor / obtained for the document
    pc,        \* "start" before a call, "done" after it
    fn,        \* the operation that ran last
    out,       \* the value the last extractor call returned
    raised,    \* TRUE iff the last extractor call raised an exception
    results,   \* PitchDeckScraper.results: filename -> record
    ret,       \* the record the last process_pitch_deck call returned
    scanned,   \* the field extractors the last call ran its pattern search in
    matches,   \* the regular-expression matches the last extractor call found
    latest     \* history: filename -> record returned by its latest call with text

vars == <<text, pc, fn, out, raised, results, ret, scanned, matches, latest>>

-----------------------------------------------------------------------------
(* Characters and strings *)

None == <<>>
Some(v) == <<v>>

Min(S) == CHOOSE x \in S : \A y \in S : x <= y
Max(S) == CHOOSE x \in S : \A y \in S : x >= y

UpperChars == {"A","B","C","D","E","F","G","H","I","J","K","L","M",
               "N","O","P","Q","R","S","T","U","V","W","X","Y","Z"}
LowerChars == {"a","b","c","d","e","f","g","h","i","j","k","l","m",
               "n","o","p","q","r","s","t","u","v","w","x","y","z"}
DigitChars == {"0","1","2","3","4","5","6","7","8","9"}
\* \s and str.strip(): the ASCII whitespace a TLA+ string can hold
SpaceChars == {" ", "\n", "\t", "\r", "\f"}

UpperSeq == <<"A","B","C","D","E","F","G","H","I","J","K","L","M",
              "N","O","P","Q","R","S","T","U","V","W","X","Y","Z">>
LowerSeq == <<"a","b","c","d","e","f","g","h","i","j","k","l","m",
              "n","o","p","q","r","s","t","u","v","w","x","y","z">>
DigitSeq == <<"0","1","2","3","4","5","6","7","8","9">>

\* the character at position i, "" outside the text
CharAt(t, i) == IF i >= 1 /\ i <= Len(t) THEN SubSeq(t, i, i) ELSE ""

\* t[i:j] of Python with 1-based i and exclusive j
Slice(t, i, j) == IF j <= i THEN "" ELSE SubSeq(t, i, j - 1)

LowerChar(c) ==
    IF c \in UpperChars
    THEN LowerSeq[CHOOSE k \in 1..26 : UpperSeq[k] = c]
    ELSE c

RECURSIVE LowerFrom(_, _)
LowerFrom(t, i) ==
    IF i > Len(t) THEN "" ELSE LowerChar(CharAt(t, i)) \o LowerFrom(t, i + 1)

\* str.lower(), and the case folding of re.IGNORECASE on ASCII text
lower(t) == LowerFrom(t, 1)

\* the literal w occurs in t at position i
LitAt(t, i, w) ==
    /\ i >= 1
    /\ i + Len(w) - 1 <= Len(t)
    /\ Slice(t, i, i + Len(w)) = w

\* w in t
Contains(t, w) == \E i \in 1..(Len(t) + 1) : LitAt(t, i, w)

\* the end of the longest run of characters of class C starting at i
RECURSIVE RunEnd(_, _, _)
RunEnd(t, i, C) ==
    IF i <= Len(t) /\ CharAt(t, i) \in C THEN RunEnd(t, i + 1, C) ELSE i

\* str.strip()
strip(t) ==
    LET keep == {i \in 1..Len(t) : CharAt(t, i) \notin SpaceChars}
    IN  IF keep = {} THEN "" ELSE Slice(t, Min(keep), Max(keep) + 1)

\* str.split(sep) for a non-empty sep: the pieces between the leftmost
\* non-overlapping occurrences of sep
RECURSIVE SplitFrom(_, _, _)
SplitFrom(t, sep, i) ==
    LET hits == {j \in i..(Len(t) + 1) : LitAt(t, j, sep)}
    IN  IF hits = {}
        THEN <<Slice(t, i, Len(t) + 1)>>
        ELSE <<Slice(t, i, Min(hits))>> \o SplitFrom(t, sep, Min(hits) + Len(sep))

split(t, sep) == SplitFrom(t, sep, 1)

-----------------------------------------------------------------------------
(* float() on the text of a group (\d+(?:\.\d+)?), as an exact decimal  *)
(* m * 10^e in normal form: m has no trailing zero, and zero is 0 * 10^0 *)

RECURSIVE Dec(_, _)
Dec(m, e) ==
    IF m = 0 THEN [m |-> 0, e |-> 0]
    ELSE IF m % 10 = 0 THEN Dec(m \div 10, e + 1)
    ELSE [m |-> m, e |-> e]

DigitVal(c) == (CHOOSE k \in 1..10 : DigitSeq[k] = c) - 1

RECURSIVE IntVal(_, _)
\* the value of the digit string t read as a decimal integer, acc so far
IntVal(t, acc) ==
    IF t = "" THEN acc ELSE IntVal(Tail(t), 10 * acc + DigitVal(Head(t)))

float(a) ==
    LET dots == {i \in 1..Len(a) : CharAt(a, i) = "."}
    IN  IF dots = {}
        THEN Dec(IntVal(a, 0), 0)
        ELSE LET d == Min(dots)
                 frac == Slice(a, d + 1, Len(a) + 1)
             IN  Dec(IntVal(Slice(a, 1, d) \o frac, 0), 0 - Len(frac))

\* amount *= 1000 and amount /= 1000
Times1000(v) == Dec(v.m, v.e + 3)
Over1000(v) == Dec(v.m, v.e - 3)

-----------------------------------------------------------------------------
(* Matches and backtracking *)

\* A match: group(0) is [s, e), group(1) is [g1s, g1e); e = 0 means no match
NoMatch == [s |-> 0, g1s |-> 0, g1e |-> 0, e |-> 0]
Match(s, g1s, g1e, e) == [s |-> s, g1s |-> g1s, g1e |-> g1e, e |-> e]

group0(t, m) == Slice(t, m.s, m.e)
group1(t, m) == Slice(t, m.g1s, m.g1e)

\* the element of a one-element set: The({F(x) : x \in {e}}) is F(e) with e
\* evaluated once
The(S) == CHOOSE x \in S : TRUE

\* the least of a set of positions, or 0 if there is none
Leftmost(starts) == The({IF S = {} THEN 0 ELSE Min(S) : S \in {starts}})

\* backtracking: the match of the first try if it succeeds, else of the next
OrElse(first, next) == The({IF m.e # 0 THEN m ELSE next : m \in {first}})

\* (?:a|b|...) at i: the index of the first alternative that occurs there, or 0
FirstAlt(t, i, alts) ==
    The({IF ok = {} THEN 0 ELSE Min(ok) :
            ok \in {{k \in 1..Len(alts) : LitAt(t, i, alts[k])}}})

\* re.IGNORECASE on the alternatives of a pattern
LowerAll(alts) == [k \in 1..Len(alts) |-> lower(alts[k])]

-----------------------------------------------------------------------------
(* \$?(\d+(?:\.\d+)?)\s*(?:units), the tail of the three money patterns *)

\* (?:units) at w, after a group [q, f)
UnitAt(t, q, f, w, units) ==
    The({IF k = 0 THEN NoMatch ELSE Match(q, q, f, w + Len(units[k])) :
            k \in {FirstAlt(t, w, units)}})

RECURSIVE SpaceUnit(_, _, _, _, _)
\* \s*(?:units) after a group [q, f): the whitespace ending at w, then shorter
SpaceUnit(t, q, f, w, units) ==
    IF w < f THEN NoMatch
    ELSE OrElse(UnitAt(t, q, f, w, units), SpaceUnit(t, q, f, w - 1, units))

\* the rest of the pattern after a group [q, f): the longest whitespace first
AfterGroup(t, q, f, units) == SpaceUnit(t, q, f, RunEnd(t, f, SpaceChars), units)

RECURSIVE Fraction(_, _, _, _, _)
\* (?:\.\d+)? after \d+ = [q, d): the fraction ending at f, then shorter, then
\* no fraction
Fraction(t, q, d, f, units) ==
    IF f < d + 2 THEN AfterGroup(t, q, d, units)
    ELSE OrElse(AfterGroup(t, q, f, units), Fraction(t, q, d, f - 1, units))

\* the longest fraction first, if a "." follows the digits
AfterDigits(t, q, d, units) ==
    Fraction(t, q, d, IF CharAt(t, d) = "." THEN RunEnd(t, d + 1, DigitChars) ELSE d,
             units)

RECURSIVE Digits(_, _, _, _)
\* \d+ = [q, d), then shorter
Digits(t, q, d, units) ==
    IF d < q + 1 THEN NoMatch
    ELSE OrElse(AfterDigits(t, q, d, units), Digits(t, q, d - 1, units))

\* (\d+(?:\.\d+)?)\s*(?:units) anchored at q: the longest digit run first
NumberUnitAt(t, q, units) == Digits(t, q, RunEnd(t, q, DigitChars), units)

\* m with its start moved to s
StartAt(m, s) == IF m.e = 0 THEN m ELSE [m EXCEPT !.s = s]

\* \$?(\d+(?:\.\d+)?)\s*(?:units) anchored at p: with the "$", then without
AmountAt(t, p, units) ==
    IF CharAt(t, p) = "$"
    THEN OrElse(StartAt(NumberUnitAt(t, p + 1, units), p), NumberUnitAt(t, p, units))
    ELSE NumberUnitAt(t, p, units)

\* UnitOfParts with the index one too far
UnitOfParts_IndexTwo(parts) == IF Len(parts) < 3 THEN None ELSE Some(strip(parts[3]))

\* match.group(0).split(match.group(1))[1].strip(): <<unit>>, or <<>> when
\* index 1 is out of range (IndexError)
UnitOfParts(parts) == IF Len(parts) < 2 THEN None ELSE Some(strip(parts[2]))
UnitOf(t, m) == The({UnitOfParts(parts) : parts \in {split(group0(t, m), group1(t, m))}})

\* An extractor call ends by returning a value or by raising; scan tells
\* whether it got past "if not text: return None" to its pattern search, and
\* found are the matches that search gave
Return(v, ms) == [exc |-> FALSE, val |-> v, scan |-> TRUE, found |-> ms]
Raise(ms) == [exc |-> TRUE, val |-> None, scan |-> TRUE, found |-> ms]
ReturnEarly == [exc |-> FALSE, val |-> None, scan |-> FALSE, found |-> <<>>]

-----------------------------------------------------------------------------
(* cue.*?amount, the pattern of extract_valuation and extract_market_size *)

\* LineEnd as it would be with re.DOTALL: "." passes newlines
LineEnd_DotAll(t, c) == Len(t) + 1

\* the position of the first newline from c on, or of the end of the text
LineEnd(t, c) ==
    The({IF p = 0 THEN Len(t) + 1 ELSE p :
            p \in {Leftmost({p \in c..Len(t) : CharAt(t, p) = "\n"})}})

\* .*?amount from c on case-folded text lt: the amount at the first position
\* that has one and is reached over characters other than newline
LazyAmount(lt, c, units) ==
    The({IF p = 0 THEN NoMatch ELSE AmountAt(lt, p, units) :
            p \in {Leftmost({p \in c..LineEnd(lt, c) :
                                AmountAt(lt, p, units).e # 0})}})

RECURSIVE CueAmountAt(_, _, _, _, _)
\* (?:cues).*?amount anchored at s: the alternatives from the k-th on
CueAmountAt(lt, s, cues, units, k) ==
    IF k > Len(cues) THEN NoMatch
    ELSE IF LitAt(lt, s, cues[k])
    THEN OrElse(StartAt(LazyAmount(lt, s + Len(cues[k]), units), s),
                CueAmountAt(lt, s, cues, units, k + 1))
    ELSE CueAmountAt(lt, s, cues, units, k + 1)

\* the match at the leftmost position that has one
CueAmountFrom(lt, cues, units) ==
    The({IF s = 0 THEN NoMatch ELSE CueAmountAt(lt, s, cues, units, 1) :
            s \in {Leftmost({s \in 1..Len(lt) :
                                CueAmountAt(lt, s, cues, units, 1).e # 0})}})

\* re.search(r"(?:cues).*?\$?(\d+(?:\.\d+)?)\s*(?:units)", text, re.IGNORECASE)
CueAmountSearch(t, cues, units) ==
    The({CueAmountFrom(lt, cues, units) : lt \in {lower(t)}})

-----------------------------------------------------------------------------
(* extract_valuation *)

valuation_cues == <<"valuation", "valued at", "worth", "post-money", "pre-money">>
valuation_units == LowerAll(<<"M", "MM", "Million", "million", "B", "billion", "Billion">>)

valuation_match(t) == CueAmountSearch(t, valuation_cues, valuation_units)

\* lines 98-105, given the amount and the unit text
ValuationScaled(amount, unit, m) ==
    IF unit = None THEN Raise(<<m>>)
    ELSE IF Contains(lower(unit[1]), "b") \/ Contains(lower(unit[1]), "billion")
    THEN Return(Some(Times1000(amount)), <<m>>)
    ELSE Return(Some(amount), <<m>>)

ValuationOf(t, m) ==
    IF m.e = 0 THEN Return(None, <<>>)
    ELSE ValuationScaled(float(group1(t, m)), UnitOf(t, m), m)

extract_valuation(t) ==
    IF t = "" THEN ReturnEarly
    ELSE The({ValuationOf(t, m) : m \in {valuation_match(t)}})

-----------------------------------------------------------------------------
(* extract_market_size *)

market_cues == LowerAll(<<"TAM", "Total Addressable Market", "Market Size",
                          "Market Opportunity">>)
market_units == LowerAll(<<"B", "billion", "Billion", "T", "trillion", "Trillion">>)

market_match(t) == CueAmountSearch(t, market_cues, market_units)

\* lines 133-140, given the amount and the unit text
MarketScaled(amount, unit, m) ==
    IF unit = None THEN Raise(<<m>>)
    ELSE IF Contains(lower(unit[1]), "t") \/ Contains(lower(unit[1]), "trillion")
    THEN Return(Some(Times1000(amount)), <<m>>)
    ELSE Return(Some(amount), <<m>>)

MarketOf(t, m) ==
    IF m.e = 0 THEN Return(None, <<>>)
    ELSE MarketScaled(float(group1(t, m)), UnitOf(t, m), m)

extract_market_size(t) ==
    IF t = "" THEN ReturnEarly
    ELSE The({MarketOf(t, m) : m \in {market_match(t)}})

-----------------------------------------------------------------------------
(* extract_funding_amount *)

funding_leads == <<"raising", "raise", "seeking", "investment of", "funding of",
                   "looking for">>
funding_units == <<"M", "MM", "Million", "million", "K", "k", "thousand", "Thousand">>

RECURSIVE SpaceAmount(_, _, _)
\* \s*amount after position c: the whitespace ending at w, then shorter
SpaceAmount(t, c, w) ==
    IF w < c THEN NoMatch
    ELSE OrElse(AmountAt(t, w, funding_units), SpaceAmount(t, c, w - 1))

SpaceAmountAt(t, c) == SpaceAmount(t, c, RunEnd(t, c, SpaceChars))

RECURSIVE LeadAmount(_, _, _)
\* (?:leads)?\s*amount anchored at s: the lead-in alternatives from the k-th on,
\* then no lead-in
LeadAmount(t, s, k) ==
    IF k > Len(funding_leads) THEN SpaceAmountAt(t, s)
    ELSE IF LitAt(t, s, funding_leads[k])
    THEN OrElse(SpaceAmountAt(t, s + Len(funding_leads[k])), LeadAmount(t, s, k + 1))
    ELSE LeadAmount(t, s, k + 1)

\* funding_pattern anchored at s
FundingAt(t, s) == StartAt(LeadAmount(t, s, 1), s)

\* the positions where funding_pattern matches
FundingStarts(t) == {s \in 1..Len(t) : FundingAt(t, s).e # 0}

\* the match at the leftmost of the positions starts from i on
FundingFrom(t, i, starts) ==
    The({IF s = 0 THEN NoMatch ELSE FundingAt(t, s) :
            s \in {Leftmost({s \in starts : s >= i})}})

RECURSIVE FundingMatchesFrom(_, _, _)
\* the leftmost match from position i on, then the matches after its end
FundingMatchesFrom(t, i, starts) ==
    The({IF m.e = 0 THEN <<>> ELSE <<m>> \o FundingMatchesFrom(t, m.e, starts) :
            m \in {FundingFrom(t, i, starts)}})

\* re.finditer(funding_pattern, text)
FundingMatches(t) == The({FundingMatchesFrom(t, 1, starts) : starts \in {FundingStarts(t)}})

\* FundingScaled without the .lower() of the unit
FundingScaled_CaseSensitive(amount, unit) ==
    IF unit = None THEN None
    ELSE IF Contains(unit[1], "k") \/ Contains(unit[1], "thousand")
    THEN Some(Over1000(amount))
    ELSE Some(amount)

\* lines 80-83, given the amount and the unit text: <<amount>>, or <<>> on
\* IndexError
FundingScaled(amount, unit) ==
    IF unit = None THEN None
    ELSE IF Contains(lower(unit[1]), "k") \/ Contains(lower(unit[1]), "thousand")
    THEN Some(Over1000(amount))
    ELSE Some(amount)

\* the loop body for one match
FundingAmount(t, m) == FundingScaled(float(group1(t, m)), UnitOf(t, m))

\* the loop over the matches ms and the return
FundingOf(t, ms) ==
    The({IF \E k \in 1..Len(ms) : amts[k] = None THEN Raise(ms)
         ELSE IF amts = <<>> THEN Return(None, ms)
         ELSE Return(Some([k \in 1..Len(ms) |-> amts[k][1]]), ms) :
            amts \in {[k \in 1..Len(ms) |-> FundingAmount(t, ms[k])]}})

extract_funding_amount(t) ==
    IF t = "" THEN ReturnEarly
    ELSE The({FundingOf(t, ms) : ms \in {FundingMatches(t)}})

-----------------------------------------------------------------------------
(* extract_company_name *)

\* [A-Za-z0-9\s]
NameChars == UpperChars \cup LowerChars \cup DigitChars \cup SpaceChars
\* the bounds of {2,30}
NameMin == 2
NameMax == 30

\* (?:About|Company:?|About Us:?), each optional colon taken before its absence
company_cues == <<"About", "Company:", "Company", "About Us:", "About Us">>
\* (?:Inc\.?|LLC|Corp\.?|Co\.?), each optional dot taken before its absence
company_suffixes == <<"Inc.", "Inc", "LLC", "Corp.", "Corp", "Co.", "Co">>
deck_words == <<"Pitch", "Deck", "Presentation">>

\* the end of the longest [A-Za-z0-9\s]{,30} started at i
NameRunMax(t, i) ==
    The({IF run > i + NameMax THEN i + NameMax ELSE run :
            run \in {RunEnd(t, i, NameChars)}})

\* (?:suffixes)? at r, nothing after it: the first suffix that occurs there,
\* else none
SuffixEnd(t, r) ==
    The({IF k = 0 THEN r ELSE r + Len(company_suffixes[k]) :
            k \in {FirstAlt(t, r, company_suffixes)}})

\* the group of patterns[0] at w, after a cue at s: [A-Z], the longest run of
\* name characters, the optional suffix
Name1At(t, s, w) ==
    IF CharAt(t, w) \in UpperChars /\ NameRunMax(t, w + 1) >= w + 1 + NameMin
    THEN The({Match(s, w, e, e) : e \in {SuffixEnd(t, NameRunMax(t, w + 1))}})
    ELSE NoMatch

RECURSIVE Space1(_, _, _, _)
\* \s+ after a cue [s, c): the whitespace ending at w, then shorter
Space1(t, s, c, w) ==
    IF w < c + 1 THEN NoMatch
    ELSE OrElse(Name1At(t, s, w), Space1(t, s, c, w - 1))

RECURSIVE Pattern1At(_, _, _)
\* patterns[0] anchored at s: the cue alternatives from the k-th on
Pattern1At(t, s, k) ==
    IF k > Len(company_cues) THEN NoMatch
    ELSE IF LitAt(t, s, company_cues[k])
    THEN OrElse(Space1(t, s, s + Len(company_cues[k]),
                       RunEnd(t, s + Len(company_cues[k]), SpaceChars)),
                Pattern1At(t, s, k + 1))
    ELSE Pattern1At(t, s, k + 1)


\* (?:Pitch|Deck|Presentation) at w, after a group [s, e1)
DeckAt(t, s, e1, w) ==
    The({IF k = 0 THEN NoMatch ELSE Match(s, s, e1, w + Len(deck_words[k])) :
            k \in {FirstAlt(t, w, deck_words)}})

RECURSIVE Space2(_, _, _, _)
\* \s+ after a group [s, e1): the whitespace ending at w, then shorter
Space2(t, s, e1, w) ==
    IF w < e1 + 1 THEN NoMatch
    ELSE OrElse(DeckAt(t, s, e1, w), Space2(t, s, e1, w - 1))

RECURSIVE Suffix2(_, _, _, _)
\* (?:suffixes) at r: the alternatives from the k-th on
Suffix2(t, s, r, k) ==
    IF k > Len(company_suffixes) THEN NoMatch
    ELSE IF LitAt(t, r, company_suffixes[k])
    THEN OrElse(Space2(t, s, r + Len(company_suffixes[k]),
                       RunEnd(t, r + Len(company_suffixes[k]), SpaceChars)),
                Suffix2(t, s, r, k + 1))
    ELSE Suffix2(t, s, r, k + 1)

RECURSIVE Run2(_, _, _)
\* [A-Za-z0-9\s]{2,30} ending at r, then shorter
Run2(t, s, r) ==
    IF r < s + 1 + NameMin THEN NoMatch
    ELSE OrElse(Suffix2(t, s, r, 1), Run2(t, s, r - 1))

RECURSIVE Run2_SuffixOptional(_, _, _)
\* Run2 with the suffix group of patterns[1] optional, as in patterns[0]
Run2_SuffixOptional(t, s, r) ==
    IF r < s + 1 + NameMin THEN NoMatch
    ELSE OrElse(OrElse(Suffix2(t, s, r, 1), Space2(t, s, r, RunEnd(t, r, SpaceChars))),
                Run2_SuffixOptional(t, s, r - 1))

\* Pattern2At with the suffix group optional
Pattern2At_SuffixOptional(t, s) ==
    IF CharAt(t, s) \in UpperChars
    THEN Run2_SuffixOptional(t, s, NameRunMax(t, s + 1))
    ELSE NoMatch

\* patterns[1] anchored at s
Pattern2At(t, s) ==
    IF CharAt(t, s) \in UpperChars THEN Run2(t, s, NameRunMax(t, s + 1)) ELSE NoMatch

\* re.search(patterns[0], text): the match at the leftmost position that has one
Pattern1Search(t) ==
    The({IF s = 0 THEN NoMatch ELSE Pattern1At(t, s, 1) :
            s \in {Leftmost({s \in 1..Len(t) : Pattern1At(t, s, 1).e # 0})}})

\* re.search(patterns[1], text)
Pattern2Search(t) ==
    The({IF s = 0 THEN NoMatch ELSE Pattern2At(t, s) :
            s \in {Leftmost({s \in 1..Len(t) : Pattern2At(t, s).e # 0})}})

\* the loop over patterns: the first pattern that matches
CompanyOf(t, m) ==
    IF m.e = 0 THEN Return(None, <<>>) ELSE Return(Some(strip(group1(t, m))), <<m>>)

extract_company_name(t) ==
    IF t = "" THEN ReturnEarly
    ELSE The({CompanyOf(t, m) : m \in {OrElse(Pattern1Search(t), Pattern2Search(t))}})

-----------------------------------------------------------------------------
(* extract_founders *)

section_starts == LowerAll(<<"Team", "Founders", "Management">>)
section_ends == LowerAll(<<"Market", "Product", "Traction", "Financials",
                           "Competition">>)
founder_seps == {",", ".", "\n"} \cup SpaceChars
founder_titles == <<"CEO", "CTO", "CFO", "COO", "Founder", "Co-Founder">>

\* (?:end cues) at p, after a section start at s
SectionEndAt(lt, s, p) ==
    The({IF k = 0 THEN NoMatch ELSE Match(s, 0, 0, p + Len(section_ends[k])) :
            k \in {FirstAlt(lt, p, section_ends)}})

\* .*?(?:end cues) from c with re.DOTALL: the end cue at the first position
\* that has one, reached over characters of any kind
LazyEnd(lt, s, c) ==
    The({IF p = 0 THEN NoMatch ELSE SectionEndAt(lt, s, p) :
            p \in {Leftmost({p \in c..Len(lt) : FirstAlt(lt, p, section_ends) # 0})}})

RECURSIVE SectionAt(_, _, _)
\* the section pattern anchored at s: the start cues from the k-th on
SectionAt(lt, s, k) ==
    IF k > Len(section_starts) THEN NoMatch
    ELSE IF LitAt(lt, s, section_starts[k])
    THEN OrElse(LazyEnd(lt, s, s + Len(section_starts[k])), SectionAt(lt, s, k + 1))
    ELSE SectionAt(lt, s, k + 1)

\* the match at the leftmost position that has one
SectionFrom(lt) ==
    The({IF s = 0 THEN NoMatch ELSE SectionAt(lt, s, 1) :
            s \in {Leftmost({s \in 1..Len(lt) : SectionAt(lt, s, 1).e # 0})}})

\* re.search(section pattern, text, re.DOTALL | re.IGNORECASE)
SectionSearch(t) == The({SectionFrom(lt) : lt \in {lower(t)}})

\* (?:titles) at w, after a name [s, g)
TitleAt(t, s, g, w) ==
    The({IF k = 0 THEN NoMatch ELSE Match(s, s, g, w + Len(founder_titles[k])) :
            k \in {FirstAlt(t, w, founder_titles)}})

RECURSIVE SpaceTitle(_, _, _, _, _)
\* \s*(?:titles) from q after a name [s, g): the whitespace ending at w, then
\* shorter
SpaceTitle(t, s, g, q, w) ==
    IF w < q THEN NoMatch
    ELSE OrElse(TitleAt(t, s, g, w), SpaceTitle(t, s, g, q, w - 1))

SpaceTitleAt(t, s, g, q) == SpaceTitle(t, s, g, q, RunEnd(t, q, SpaceChars))

\* (?:,|\.|\n|\s)?\s*(?:titles) after a name [s, g): with the separator, then
\* without
AfterName(t, s, g) ==
    IF CharAt(t, g) \in founder_seps
    THEN OrElse(SpaceTitleAt(t, s, g, g + 1), SpaceTitleAt(t, s, g, g))
    ELSE SpaceTitleAt(t, s, g, g)

\* the end of the longest \s[A-Z][a-z]* started at j, j itself if none starts
NextWordMax(t, j) ==
    IF CharAt(t, j) \in SpaceChars /\ CharAt(t, j + 1) \in UpperChars
    THEN RunEnd(t, j + 2, LowerChars)
    ELSE j

RECURSIVE ThirdWord(_, _, _, _)
\* the second repetition of (?:\s[A-Z][a-z]+) after [s, j2): the word ending
\* at j3, then shorter, then no second repetition
ThirdWord(t, s, j2, j3) ==
    IF j3 < j2 + 3 THEN AfterName(t, s, j2)
    ELSE OrElse(AfterName(t, s, j3), ThirdWord(t, s, j2, j3 - 1))

RECURSIVE SecondWord(_, _, _, _)
\* the first repetition of (?:\s[A-Z][a-z]+) after [s, j1): the word ending
\* at j2, then shorter
SecondWord(t, s, j1, j2) ==
    IF j2 < j1 + 3 THEN NoMatch
    ELSE OrElse(ThirdWord(t, s, j2, NextWordMax(t, j2)), SecondWord(t, s, j1, j2 - 1))

RECURSIVE FirstWord(_, _, _)
\* [A-Z][a-z]+ = [s, j1), then shorter
FirstWord(t, s, j1) ==
    IF j1 < s + 2 THEN NoMatch
    ELSE OrElse(SecondWord(t, s, j1, NextWordMax(t, j1)), FirstWord(t, s, j1 - 1))

\* the name pattern anchored at s
NameAt(t, s) ==
    IF CharAt(t, s) \in UpperChars
    THEN FirstWord(t, s, RunEnd(t, s + 1, LowerChars))
    ELSE NoMatch

\* the positions where the name pattern matches
NameStarts(t) == {s \in 1..Len(t) : NameAt(t, s).e # 0}

\* the match at the leftmost of the positions starts from i on
NameFrom(t, i, starts) ==
    The({IF s = 0 THEN NoMatch ELSE NameAt(t, s) :
            s \in {Leftmost({s \in starts : s >= i})}})

RECURSIVE NameMatchesFrom(_, _, _)
\* group(1) of the leftmost match from position i on, then of the matches
\* after its end
NameMatchesFrom(t, i, starts) ==
    The({IF m.e = 0 THEN <<>> ELSE <<group1(t, m)>> \o NameMatchesFrom(t, m.e, starts) :
            m \in {NameFrom(t, i, starts)}})

\* re.findall(name pattern, founder_text)
NameMatches(t) == The({NameMatchesFrom(t, 1, starts) : starts \in {NameStarts(t)}})

\* founder_section.group(0)
founder_text(t, m) == group0(t, m)

FoundersOf(founders, m) ==
    IF founders = <<>> THEN Return(None, <<m>>) ELSE Return(Some(founders), <<m>>)

FoundersIn(t, m) ==
    IF m.e = 0 THEN Return(None, <<>>)
    ELSE The({FoundersOf(founders, m) :
                 founders \in {NameMatches(founder_text(t, m))}})

extract_founders(t) ==
    IF t = "" THEN ReturnEarly
    ELSE The({FoundersIn(t, m) : m \in {SectionSearch(t)}})

-----------------------------------------------------------------------------
(* extract_text_from_pdf and process_pitch_deck *)

\* A PDF file: broken (PdfReader or a page raises), or its pages' extract_text()
\* results, "" for a page without a text layer
Pdf(broken, pages) == [broken |-> broken, pages |-> pages]

RECURSIVE PagesText(_)
PagesText(pages) ==
    IF pages = <<>> THEN ""
    ELSE IF Head(pages) = "" THEN PagesText(Tail(pages))
    ELSE Head(pages) \o "\n" \o PagesText(Tail(pages))

extract_text_from_pdf(pdf) == IF pdf.broken THEN "" ELSE PagesText(pdf.pages)

ExtractionFailed == [company_name |-> "Unknown", status |-> "Extraction failed"]

\* the extractor calls of one process_pitch_deck call, in call order
ExtractorOrder == <<"company", "funding", "valuation", "founders", "market">>

Extract(name, t) ==
    CASE name = "company" -> extract_company_name(t)
      [] name = "funding" -> extract_funding_amount(t)
      [] name = "valuation" -> extract_valuation(t)
      [] name = "founders" -> extract_founders(t)
      [] name = "market" -> extract_market_size(t)

\* what the extractor calls of process_pitch_deck give on text t, in call
\* order; none is called when "if not text" returns first
ExtractAll(t) ==
    IF t = "" THEN <<>>
    ELSE <<Extract("company", t), Extract("funding", t), Extract("valuation", t),
           Extract("founders", t), Extract("market", t)>>

\* lines 152-161: the record built from the extractor results r
Record(r) ==
    [company_name |-> IF r[1].val = None THEN "Unknown" ELSE r[1].val[1],
     funding_sought |-> r[2].val,
     valuation |-> r[3].val,
     founders |-> r[4].val,
     market_size_billions |-> r[5].val,
     status |-> "Success"]

\* self.results[filename] = rec
Stored(res, filename, rec) ==
    [f \in DOMAIN res \cup {filename} |-> IF f = filename THEN rec ELSE res[f]]

\* How a process_pitch_deck call ends: the text it got, whether it raised,
\* self.results afterwards, the record returned, the extractors it called
Outcome(t, exc, res, rec, called) ==
    [text |-> t, exc |-> exc, results |-> res, ret |-> rec, scanned |-> called]

\* the extractors called when those at the positions bad of r raise
CalledUpTo(r, bad) ==
    {ExtractorOrder[k] : k \in 1..(IF bad = {} THEN Len(r) ELSE Min(bad))}

\* process_pitch_deck reporting a failure when no company name is found
process_pitch_deck_FailsOnMiss(res, filename, t, r) ==
    IF t = "" \/ r[1].val = None
    THEN Outcome(t, FALSE, res, Some(ExtractionFailed),
                 IF t = "" THEN {} ELSE CalledUpTo(r, {1}))
    ELSE Outcome(t, FALSE, Stored(res, filename, Record(r)), Some(Record(r)),
                 CalledUpTo(r, {}))

\* process_pitch_deck storing the failure record of a document without text
process_pitch_deck_StoresFailure(res, filename, t, r) ==
    IF t = ""
    THEN Outcome(t, FALSE, Stored(res, filename, ExtractionFailed),
                 Some(ExtractionFailed), {})
    ELSE Outcome(t, FALSE, Stored(res, filename, Record(r)), Some(Record(r)),
                 CalledUpTo(r, {}))

\* process_pitch_deck(pdf_file, filename) on a scraper whose results are res,
\* from the point where extract_text_from_pdf has returned t; r is
\* ExtractAll(t)
process_pitch_deck(res, filename, t, r) ==
    IF t = ""
    THEN Outcome(t, FALSE, res, Some(ExtractionFailed), {})
    ELSE IF \E k \in 1..Len(r) : r[k].exc
    THEN Outcome(t, TRUE, res, None, CalledUpTo(r, {k \in 1..Len(r) : r[k].exc}))
    ELSE Outcome(t, FALSE, Stored(res, filename, Record(r)), Some(Record(r)),
                 CalledUpTo(r, {}))

-----------------------------------------------------------------------------
(* Input texts: concatenations of at most MaxTokens tokens of a lexicon *)

MaxTokens == 3

RECURSIVE Concat(_)
Concat(ts) == IF ts = <<>> THEN "" ELSE Head(ts) \o Concat(Tail(ts))

TextsOver(lex) == {Concat(ts) : ts \in UNION {[1..n -> lex] : n \in 0..MaxTokens}}

CompanyLex == {"About Acme Corp", "Beta Inc Pitch Deck", "Acme Pitch Deck",
               "Company: ", "\n"}
FundingLex == {"seeking $500K", "raised $1M last year, now ", "raising $5M",
               "2.5MM 7 million 8 Million\n", "3 thousand 9 Thousand 4k "}
ValuationLex == {"valued at $1.2 billion", "Valuation", " in 2021: ", "$2 billion",
                 "$5M", "\n"}
FoundersLex == {"Team\n", "Jane Smith, CEO\nBob Lee, CTO\n",
                "Market\nOur market is huge", "Mary Ann Roe, Founder\n"}
MarketLex == {"TAM of $3 trillion", "Market Size", " by 2030: ", "$3 trillion", "$5B"}

Texts == TextsOver(CompanyLex) \cup TextsOver(FundingLex) \cup TextsOver(ValuationLex)
         \cup TextsOver(FoundersLex) \cup TextsOver(MarketLex)

-----------------------------------------------------------------------------
(* SpecExtract: one call of one extractor on one text *)

InitExtract ==
    /\ text \in Texts
    /\ pc = "start"
    /\ fn = "none"
    /\ out = None
    /\ raised = FALSE
    /\ results = <<>>
    /\ ret = None
    /\ scanned = {}
    /\ matches = <<>>
    /\ latest = <<>>

Call(name) ==
    /\ pc = "start"
    /\ \E r \in {Extract(name, text)} :
        /\ pc' = "done"
        /\ fn' = name
        /\ out' = r.val
        /\ raised' = r.exc
        /\ scanned' = IF r.scan THEN {name} ELSE {}
        /\ matches' = r.found
        /\ UNCHANGED <<text, results, ret, latest>>

CallCompany == Call("company")
CallFunding == Call("funding")
CallValuation == Call("valuation")
CallFounders == Call("founders")
CallMarket == Call("market")

NextExtract == CallCompany \/ CallFunding \/ CallValuation \/ CallFounders \/ CallMarket

SpecExtract == InitExtract /\ [][NextExtract]_vars

-----------------------------------------------------------------------------
(* Properties of the extractors, under SpecExtract *)

\* the scale unit a money match ends with: what follows the number, without
\* the whitespace between them
UnitToken(t, m) == strip(Slice(t, m.g1e, m.e))

\* the number of money match m, times 1000 if its unit token is one of big
ScaledUp(t, m, big) ==
    IF lower(UnitToken(t, m)) \in big
    THEN Times1000(float(group1(t, m)))
    ELSE float(group1(t, m))

\* the number of money match m, over 1000 if its unit token is one of small
ScaledDown(t, m, small) ==
    IF UnitToken(t, m) \in small
    THEN Over1000(float(group1(t, m)))
    ELSE float(group1(t, m))

TeamExample == "Team\nJane Smith, CEO\nBob Lee, CTO\nMarket\nOur market is huge"
SectionCueWords == {"Team", "Founders", "Management", "Market", "Product", "Traction",
                    "Financials", "Competition"}

\* C1: extract_founders returns the titled names of the team section and no
\* cue word becomes part of a name; on the example text it returns
\* ["Jane Smith", "Bob Lee"].
C1_FoundersAreTitledNames ==
    /\ (fn = "founders" /\ text = TeamExample) => out = Some(<<"Jane Smith", "Bob Lee">>)
    /\ (fn = "founders" /\ out # None) =>
           \A k \in 1..Len(out[1]) : \A w \in SectionCueWords : ~LitAt(out[1][k], 1, w)

\* C2: whenever extract_valuation finds a match, it returns the matched number
\* times 1000 if the matched unit is B/billion/Billion and the matched number
\* itself if the unit is million-scale, whatever lies between cue and amount.
C2_ValuationScaledByMatchedUnit ==
    (fn = "valuation" /\ matches # <<>>) =>
        out = Some(ScaledUp(text, matches[1], {"b", "billion"}))

\* C3: whenever extract_market_size finds a match, it returns the matched
\* number times 1000 if the matched unit is T/trillion/Trillion and the matched
\* number itself if the unit is billion-scale, whatever lies between cue and
\* amount.
C3_MarketScaledByMatchedUnit ==
    (fn = "market" /\ matches # <<>>) =>
        out = Some(ScaledUp(text, matches[1], {"t", "trillion"}))

\* C4: for a text containing both "About Acme Corp" and "Beta Inc Pitch Deck",
\* in either order, extract_company_name returns exactly "Acme Corp".
C4_LabelCueNameWins ==
    (/\ fn = "company"
     /\ Contains(text, "About Acme Corp")
     /\ Contains(text, "Beta Inc Pitch Deck")) => out = Some("Acme Corp")

\* the matches ms lie one after the other in the text
InOrder(ms) == \A k \in 1..(Len(ms) - 1) : ms[k].e <= ms[k + 1].s

\* what C5 says extract_funding_amount returns when the occurrences are ms
FundingExpected(t, ms) ==
    IF ms = <<>> THEN None
    ELSE Some([k \in 1..Len(ms) |->
                  ScaledDown(t, ms[k], {"K", "k", "thousand", "Thousand"})])

\* C5: extract_funding_amount returns, in order of appearance, the number of
\* every non-overlapping occurrence of number and scale unit, divided by 1000
\* for the units K/k/thousand/Thousand and unchanged for M/MM/Million/million,
\* and None when there is no occurrence; "seeking $500K" gives [0.5] and
\* "raised $1M last year, now raising $5M" gives [1.0, 5.0].
C5_FundingNormalizedInOrder ==
    fn = "funding" =>
        /\ ~raised
        /\ InOrder(matches)
        /\ out = FundingExpected(text, matches)
        /\ text = "seeking $500K" => out = Some(<<Dec(5, -1)>>)
        /\ text = "raised $1M last year, now raising $5M"
               => out = Some(<<Dec(1, 0), Dec(5, 0)>>)

C5_Witness ==
    /\ fn = "funding"
    /\ text = "seeking $500Kraised $1M last year, now raising $5M"
    /\ out = Some(<<Dec(5, -1), Dec(1, 0), Dec(5, 0)>>)

\* a cue of cues occurs in t (case-insensitively) with an amount with a unit of
\* units after it, and no newline between the cue and that amount
SameLineAmount(t, cues, units) ==
    \E lt \in {lower(t)} :
    \E s \in 1..Len(t), k \in 1..Len(cues) :
        /\ LitAt(lt, s, cues[k])
        /\ \E p \in (s + Len(cues[k]))..Len(t) :
              /\ ~Contains(Slice(t, s + Len(cues[k]), p), "\n")
              /\ AmountAt(lt, p, units).e # 0

\* the end of the leftmost occurrence of a cue of cues in t, or 0
FirstCueEndIn(lt, cues) ==
    The({IF s = 0 THEN 0 ELSE s + Len(cues[FirstAlt(lt, s, cues)]) :
            s \in {Leftmost({s \in 1..Len(lt) : FirstAlt(lt, s, cues) # 0})}})
FirstCueEnd(t, cues) == The({FirstCueEndIn(lt, cues) : lt \in {lower(t)}})

\* the nearest amount with a unit of units in t from position c on
NearestAmountIn(lt, c, units) ==
    The({IF p = 0 THEN NoMatch ELSE AmountAt(lt, p, units) :
            p \in {Leftmost({p \in c..Len(lt) : AmountAt(lt, p, units).e # 0})}})
NearestAmount(t, c, units) == The({NearestAmountIn(lt, c, units) : lt \in {lower(t)}})

\* the first cue of t has no amount on its own line and the nearest amount
\* after it lies on a later line
AmountOnLaterLine(t, cues, units) ==
    /\ FirstCueEnd(t, cues) # 0
    /\ NearestAmount(t, FirstCueEnd(t, cues), units).e # 0
    /\ Contains(Slice(t, FirstCueEnd(t, cues),
                      NearestAmount(t, FirstCueEnd(t, cues), units).s), "\n")

\* C6 (as stated): the span between cue and amount may cross line breaks: when
\* the first valuation cue has no amount on its own line and the nearest
\* amount is on a later line, extract_valuation returns that amount normalized.
C6_SpanCrossesLines ==
    (fn = "valuation" /\ AmountOnLaterLine(text, valuation_cues, valuation_units)) =>
        out = Some(ScaledUp(text, NearestAmount(text, FirstCueEnd(text, valuation_cues),
                                                valuation_units), {"b", "billion"}))

\* C6 (amended): the span between cue and amount does not cross line breaks:
\* extract_valuation returns a value exactly when some valuation cue has an
\* amount with scale unit after it before the next newline; a cue whose
\* nearest amount is on a later line is not matched with it, so
\* "Valuation\n$5M" gives None.
C6_SpanStaysOnLine ==
    fn = "valuation" =>
        /\ out # None <=> SameLineAmount(text, valuation_cues, valuation_units)
        /\ text = "Valuation\n$5M" => out = None

C6_Witness ==
    /\ fn = "valuation"
    /\ text = "Valuation\n$5M"
    /\ AmountOnLaterLine(text, valuation_cues, valuation_units)
    /\ out = None

\* t ends with w
EndsWith(t, w) == Len(t) >= Len(w) /\ Slice(t, Len(t) - Len(w) + 1, Len(t) + 1) = w

\* none of the label cues of patterns[0] occurs in t
NoLabelCue(t) == \A k \in 1..Len(company_cues) : ~Contains(t, company_cues[k])

\* name occurs in t followed by whitespace and "Pitch", "Deck" or "Presentation"
BeforeDeckWord(t, name) ==
    \E i \in 1..Len(t) :
        /\ LitAt(t, i, name)
        /\ RunEnd(t, i + Len(name), SpaceChars) > i + Len(name)
        /\ FirstAlt(t, RunEnd(t, i + Len(name), SpaceChars), deck_words) # 0

\* C7 (as stated): pattern 2 has the legal suffix optional: with no label cue,
\* "Acme Pitch Deck" yields the capitalized word sequence before the deck word
\* rather than absent.
C7_SuffixOptional ==
    (fn = "company" /\ text = "Acme Pitch Deck") => out # None

\* C7 (amended): pattern 2 requires the legal suffix: for a text without label
\* cue, extract_company_name returns only a name that ends in Inc/LLC/Corp/Co
\* (with or without dot) and stands before whitespace and a deck word, and
\* returns None for a suffix-less name such as "Acme Pitch Deck".
C7_SuffixRequired ==
    (fn = "company" /\ NoLabelCue(text)) =>
        /\ out # None =>
               /\ \E k \in 1..Len(company_suffixes) : EndsWith(out[1], company_suffixes[k])
               /\ BeforeDeckWord(text, out[1])
        /\ text = "Acme Pitch Deck" => out = None

C7_Witness ==
    /\ fn = "company"
    /\ text = "Acme Pitch Deck"
    /\ NoLabelCue(text)
    /\ out = None

\* C9: every extractor call ends with a value and never raises: a miss gives
\* None, the split of the matched text on the amount string always has a
\* second element, and on the empty string the extractor returns None without
\* scanning.
C9_ExtractorsNeverRaise ==
    pc = "done" =>
        /\ ~raised
        /\ matches = <<>> => out = None
        /\ fn \in {"funding", "valuation", "market"} =>
               \A k \in 1..Len(matches) :
                   Len(split(group0(text, matches[k]), group1(text, matches[k]))) >= 2
        /\ text = "" => (out = None /\ scanned = {})

C9_Witness ==
    /\ pc = "done"
    /\ fn = "valuation"
    /\ text = "Valuation in 2021: $2 billion"
    /\ Len(split(group0(text, matches[1]), group1(text, matches[1]))) > 2
    /\ out # None
    /\ ~raised

-----------------------------------------------------------------------------
(* Spec: process_pitch_deck calls on one PitchDeckScraper *)

MaxPages == 2

Filenames == {"a.pdf", "b.pdf"}
PageTexts == {"", "Our story", "About Acme Inc. raising $5M", "valued at $1.2 billion"}
Pdfs == {Pdf(FALSE, ps) : ps \in UNION {[1..n -> PageTexts] : n \in 0..MaxPages}}
        \cup {Pdf(TRUE, <<>>)}

\* the texts extract_text_from_pdf can give, and the extractor results on each
PdfTexts == {extract_text_from_pdf(pdf) : pdf \in Pdfs}
ExtractedOf == [t \in PdfTexts |-> ExtractAll(t)]

\* __init__: self.results = defaultdict(dict)
Init ==
    /\ text = ""
    /\ pc = "start"
    /\ fn = "none"
    /\ out = None
    /\ raised = FALSE
    /\ results = <<>>
    /\ ret = None
    /\ scanned = {}
    /\ matches = <<>>
    /\ latest = <<>>

Process(pdf, filename) ==
    \E t \in {extract_text_from_pdf(pdf)} :
    \E c \in {process_pitch_deck(results, filename, t, ExtractedOf[t])} :
        /\ pc' = "done"
        /\ fn' = "process"
        /\ text' = c.text
        /\ raised' = c.exc
        /\ results' = c.results
        /\ ret' = c.ret
        /\ scanned' = c.scanned
        /\ latest' = IF c.text # "" /\ ~c.exc
                     THEN [f \in DOMAIN latest \cup {filename} |->
                              IF f = filename THEN c.ret[1] ELSE latest[f]]
                     ELSE latest
        /\ UNCHANGED <<out, matches>>

Next == \E pdf \in Pdfs, filename \in Filenames : Process(pdf, filename)

Spec == Init /\ [][Next]_vars

-----------------------------------------------------------------------------
(* Properties of process_pitch_deck, under Spec *)

\* no pattern of any extractor matches in t
NothingMatches(t) == \A k \in 1..Len(ExtractedOf[t]) : ExtractedOf[t][k].found = <<>>

\* the record of a document with text in which nothing matched
EmptyRecord ==
    [company_name |-> "Unknown", funding_sought |-> None, valuation |-> None,
     founders |-> None, market_size_billions |-> None, status |-> "Success"]

\* C8: process_pitch_deck returns status "Success" exactly when the text
\* obtained is non-empty, however many extractors miss (company_name "Unknown"
\* and the other fields absent when none matches); for empty text it returns
\* company_name "Unknown" with a failed status and runs no extractor.
C8_SuccessIffText ==
    fn = "process" =>
        /\ ~raised
        /\ ret # None
        /\ ret[1].status = "Success" <=> text # ""
        /\ text = "" => (ret = Some(ExtractionFailed) /\ scanned = {})
        /\ (text # "" /\ NothingMatches(text)) => ret = Some(EmptyRecord)

C8_Witness ==
    /\ fn = "process"
    /\ text = "Our story\n"
    /\ NothingMatches(text)
    /\ ret = Some(EmptyRecord)

\* C10: self.results has an entry for exactly the filenames that had a call
\* with non-empty text, and the entry is the record the most recent such call
\* returned: a call without text and a call for another filename leave an
\* entry as it was.
C10_ResultsAreLatestRecords == results = latest

C10_Witness ==
    /\ fn = "process"
    /\ text = ""
    /\ ret = Some(ExtractionFailed)
    /\ DOMAIN results = Filenames
    /\ results["a.pdf"].status = "Success"
    /\ results["a.pdf"] # results["b.pdf"]

=============================================================================
